---------------------------- MODULE Spec2Model ----------------------------
(***************************************************************************)
(* A model of nscde-kitty-integ.py: the conversion of an NsCDE palette     *)
(* file (one 12-digit hex colour per line) into a kitty colour theme.      *)
(*                                                                         *)
(* A string is a sequence of one-character strings, so that lengths,       *)
(* slices, letter case and concatenation are those of the Python code.     *)
(* An RGB colour is a sequence of three integers.                          *)
(***************************************************************************)
EXTENDS Integers, Sequences, FiniteSets, TLC

VARIABLES
    \* the run of the script (the __main__ block)
    pc,             \* position of the run in the __main__ block
    args,           \* the parsed command line (argparse namespace)
    theme_file,     \* the file at args.theme: its sequence of lines
    colors_12d,     \* the lines read from the palette file
    colors,         \* the normal pool
    bright_colors,  \* the bright pool
    entries,        \* conf.entries: slot name -> RGB tuple (<<>> when unset)
    step,           \* number of statements of the assignment block executed
    exc,            \* the exception that ended the run ("" when none)
    status,         \* "running", "exit0" (normal or sys.exit(0)), "crash"
    \* one application of the colour codec to one string
    cpc, thxs, rgb1, hexs, rgb2,
    \* one application of brighten
    bpc, b_rgb, b_values, b_out,
    \* one application of closest_color
    kpc, k_rgb, k_colors, k_result, k_exc

mainVars == <<pc, args, theme_file, colors_12d, colors,
              bright_colors, entries, step, exc, status>>
codecVars == <<cpc, thxs, rgb1, hexs, rgb2>>
brightenVars == <<bpc, b_rgb, b_values, b_out>>
closestVars == <<kpc, k_rgb, k_colors, k_result, k_exc>>
vars == <<mainVars, codecVars, brightenVars, closestVars>>

-----------------------------------------------------------------------------
(* Generic helpers *)

Min2(a, b) == IF a <= b THEN a ELSE b

Range(s) == {s[i] : i \in 1..Len(s)}

\* Python slice s[lo:hi] with 0 <= lo <= hi (0-based, hi exclusive, clipped)
Slice(s, lo, hi) == SubSeq(s, lo + 1, Min2(hi, Len(s)))

RECURSIVE Concat(_)
Concat(ss) == IF ss = <<>> THEN <<>> ELSE Head(ss) \o Concat(Tail(ss))

-----------------------------------------------------------------------------
(* The canonical hues, lines 34-41 *)

BLACK == <<0, 0, 0>>
RED == <<255, 0, 0>>
GREEN == <<0, 255, 0>>
YELLOW == <<255, 255, 0>>
BLUE == <<0, 0, 255>>
MAGENTA == <<255, 0, 255>>
CYAN == <<0, 255, 255>>
WHITE == <<255, 255, 255>>

-----------------------------------------------------------------------------
(* Characters and base-16 numerals *)

UpperHex == <<"0", "1", "2", "3", "4", "5", "6", "7", "8", "9",
              "A", "B", "C", "D", "E", "F">>
LowerHex == <<"0", "1", "2", "3", "4", "5", "6", "7", "8", "9",
              "a", "b", "c", "d", "e", "f">>

IsHexChar(ch) == ch \in Range(UpperHex) \cup Range(LowerHex)

HexValue(ch) ==
    IF ch \in Range(UpperHex)
    THEN (CHOOSE i \in 1..16 : UpperHex[i] = ch) - 1
    ELSE (CHOOSE i \in 1..16 : LowerHex[i] = ch) - 1

\* str.upper()
UpperChar(ch) ==
    IF ch \in Range(LowerHex)
    THEN UpperHex[CHOOSE i \in 1..16 : LowerHex[i] = ch]
    ELSE ch
Upper(s) == [i \in 1..Len(s) |-> UpperChar(s[i])]

Whitespace == {" ", "\n"}

\* str.strip(): leading and trailing whitespace removed
RECURSIVE LStrip(_)
LStrip(s) == IF s # <<>> /\ Head(s) \in Whitespace THEN LStrip(Tail(s)) ELSE s
RECURSIVE RStrip(_)
RStrip(s) ==
    IF s # <<>> /\ s[Len(s)] \in Whitespace
    THEN RStrip(SubSeq(s, 1, Len(s) - 1))
    ELSE s
Strip(s) == RStrip(LStrip(s))

\* int(s, 16) succeeds on a non-empty string of hex digits
\* (the strings of the model hold no sign, underscore or inner blank)
IntParses(s) == s # <<>> /\ \A i \in 1..Len(s) : IsHexChar(s[i])
RECURSIVE Int16(_)
Int16(s) ==
    IF s = <<>> THEN 0
    ELSE 16 * Int16(SubSeq(s, 1, Len(s) - 1)) + HexValue(s[Len(s)])

\* format(n, "x"): lower-case base 16, no padding, "-" before a negative
RECURSIVE FormatX(_)
FormatX(n) ==
    IF n < 0 THEN <<"-">> \o FormatX(0 - n)
    ELSE IF n < 16 THEN <<LowerHex[n + 1]>>
    ELSE FormatX(n \div 16) \o <<LowerHex[(n % 16) + 1]>>

-----------------------------------------------------------------------------
(* The colour codec, lines 75-112 *)

ErrFormat12 == "ValueError: thxs is not correctly formatted (#xxxxxxxxxxxx)."
ErrFormatLen == "ValueError: thxs must be 12 digits long with '#' at the beginning."
ErrInt == "ValueError: invalid literal for int() with base 16"

Raised(e) == [ok |-> FALSE, rgb |-> <<>>, err |-> e]
Returned(v) == [ok |-> TRUE, rgb |-> v, err |-> ""]

tw_to_rgb(s) ==
    IF Len(s) # 13
    THEN IF Len(s) = 12 THEN Raised(ErrFormat12) ELSE Raised(ErrFormatLen)
    ELSE IF /\ IntParses(Slice(s, 1, 3))
            /\ IntParses(Slice(s, 5, 7))
            /\ IntParses(Slice(s, 9, 11))
         THEN Returned(<<Int16(Slice(s, 1, 3)), Int16(Slice(s, 5, 7)),
                         Int16(Slice(s, 9, 11))>>)
         ELSE Raised(ErrInt)

\* a plausible slip: each channel written as four digits, as the palette has them
rgb_to_hex_wide(rgb) ==
    Upper(<<"#">> \o Concat([i \in 1..3 |->
        (IF rgb[i] >= 0 /\ rgb[i] < 16 THEN <<"0">> \o FormatX(rgb[i])
         ELSE FormatX(rgb[i])) \o <<"0", "0">>]))

rgb_to_hex(rgb) ==
    Upper(<<"#">> \o FormatX(rgb[1]) \o FormatX(rgb[2]) \o FormatX(rgb[3]))

-----------------------------------------------------------------------------
(* The colour transformer, lines 115-168 *)

\* tuple(map(add, a, b)) and tuple(map(sub, a, b)): map stops at the shorter
MapAdd(a, b) == [i \in 1..Min2(Len(a), Len(b)) |-> a[i] + b[i]]
MapSub(a, b) == [i \in 1..Min2(Len(a), Len(b)) |-> a[i] - b[i]]

\* t * n on a tuple: n copies of t, one after another
RECURSIVE TupleRepeat(_, _)
TupleRepeat(t, n) == IF n <= 0 THEN <<>> ELSE t \o TupleRepeat(t, n - 1)

\* a plausible slip: every channel clamped to 0..255 on its own
brighten_clamped(rgb, values) ==
    [i \in 1..Len(MapAdd(rgb, values)) |-> Min2(MapAdd(rgb, values)[i], 255)]

\* round() of an int is that int, so line 144 changes nothing
brighten(rgb, values) ==
    LET added == MapAdd(rgb, values)
        dimmed == IF \E i \in 1..Len(added) : added[i] > 255
                  THEN MapSub(rgb, values)
                  ELSE added
    IN  IF \E i \in 1..Len(dimmed) : dimmed[i] < 0 THEN rgb ELSE dimmed

\* luminance > 0.5 with luminance = (0.299 R + 0.587 G + 0.114 B) / 255,
\* scaled by 255000 to stay in the integers. In double precision the test
\* agrees with the exact one on every colour of 0..255 but (218, 58, 248),
\* whose exact luminance is 0.5 and whose computed one is just above it.
text_color(bg) ==
    IF \/ 299 * bg[1] + 587 * bg[2] + 114 * bg[3] > 127500
       \/ bg = <<218, 58, 248>>
    THEN <<0, 0, 0>>
    ELSE <<255, 255, 255>>

-----------------------------------------------------------------------------
(* The palette assigner, lines 171-199 *)

\* Python's order on tuples of ints
RECURSIVE TupleLess(_, _)
TupleLess(a, b) ==
    IF b = <<>> THEN FALSE
    ELSE IF a = <<>> THEN TRUE
    ELSE IF Head(a) # Head(b) THEN Head(a) < Head(b)
    ELSE TupleLess(Tail(a), Tail(b))

\* abs(r - cr) ** 2 + abs(g - cg) ** 2 + abs(b - cb) ** 2. The code takes the
\* square root of it; on these integers (at most 3 * 255^2) the root in
\* double precision is strictly increasing, so the order and the ties of
\* the roots are those of the squares.
ColorDiff(rgb, color) ==
    (rgb[1] - color[1]) * (rgb[1] - color[1])
    + (rgb[2] - color[2]) * (rgb[2] - color[2])
    + (rgb[3] - color[3]) * (rgb[3] - color[3])

\* color_diffs, lines 192-196
ColorDiffs(rgb, pool) ==
    [i \in 1..Len(pool) |-> [diff |-> ColorDiff(rgb, pool[i]), color |-> pool[i]]]

\* (d1, c1) < (d2, c2) on the pairs of color_diffs
PairLess(p, q) ==
    IF p.diff # q.diff THEN p.diff < q.diff ELSE TupleLess(p.color, q.color)

\* a plausible slip: min(color_diffs, key=distance), the first closest entry
MinPairByDiff(diffs) ==
    diffs[CHOOSE i \in 1..Len(diffs) :
            /\ \A j \in 1..Len(diffs) : diffs[j].diff >= diffs[i].diff
            /\ \A j \in 1..(i - 1) : diffs[j].diff > diffs[i].diff]

\* min(color_diffs), line 197: the first pair no other pair is less than
MinPair(diffs) ==
    diffs[CHOOSE i \in 1..Len(diffs) :
            /\ \A j \in 1..Len(diffs) : ~PairLess(diffs[j], diffs[i])
            /\ \A j \in 1..(i - 1) : PairLess(diffs[i], diffs[j])]

\* a plausible slip: every occurrence removed
ListRemoveAll(pool, x) == SelectSeq(pool, LAMBDA c : c # x)

\* list.remove(x), line 198: the first occurrence removed
ListRemove(pool, x) ==
    LET i == CHOOSE k \in 1..Len(pool) :
                 pool[k] = x /\ \A j \in 1..(k - 1) : pool[j] # x
    IN  SubSeq(pool, 1, i - 1) \o SubSeq(pool, i + 1, Len(pool))

ErrMinEmpty == "ValueError: min() arg is an empty sequence"

\* a plausible slip: an empty pool answered with the target itself
closest_color_lenient(rgb, pool) ==
    IF pool = <<>>
    THEN [ok |-> TRUE, result |-> rgb, pool |-> pool, err |-> ""]
    ELSE [ok |-> TRUE, result |-> MinPair(ColorDiffs(rgb, pool)).color,
          pool |-> ListRemove(pool, MinPair(ColorDiffs(rgb, pool)).color),
          err |-> ""]

\* the result and the pool as the call leaves it, or the exception of min()
closest_color(rgb, pool) ==
    IF pool = <<>>
    THEN [ok |-> FALSE, result |-> <<>>, pool |-> pool, err |-> ErrMinEmpty]
    ELSE LET result == MinPair(ColorDiffs(rgb, pool)).color
         IN  [ok |-> TRUE, result |-> result,
              pool |-> ListRemove(pool, result), err |-> ""]

-----------------------------------------------------------------------------
(* Idle values: what a specification gives the variables it does not use *)

IdleMain ==
    /\ pc = "idle" /\ args = <<>> /\ theme_file = <<>>
    /\ colors_12d = <<>> /\ colors = <<>> /\ bright_colors = <<>>
    /\ entries = <<>> /\ step = 0 /\ exc = "" /\ status = "idle"
IdleCodec ==
    cpc = "idle" /\ thxs = <<>> /\ rgb1 = <<>> /\ hexs = <<>> /\ rgb2 = <<>>
IdleBrighten ==
    bpc = "idle" /\ b_rgb = <<>> /\ b_values = <<>> /\ b_out = <<>>
IdleClosest ==
    /\ kpc = "idle" /\ k_rgb = <<>> /\ k_colors = <<>> /\ k_result = <<>>
    /\ k_exc = ""

-----------------------------------------------------------------------------
(* The codec applied to one string: tw_to_rgb, rgb_to_hex, tw_to_rgb again *)

MaxTrunc == 2   \* characters cut from the end of a 12-digit colour
MaxExtra == 1   \* characters added after it

\* the two hex digits of a byte, as a palette file writes them
ByteDigits(n) == <<LowerHex[(n \div 16) + 1], LowerHex[(n % 16) + 1]>>

\* the 12 digits of a colour: per channel the byte, then two low-order digits
WideDigits(c, low) ==
    Concat([i \in 1..3 |-> ByteDigits(c[i]) \o low])

CodecBytes == {0, 5, 16, 171, 255}
CodecLeads == {<<"#">>, <<>>, <<"0">>, <<"g">>}
CodecLows == {<<"0", "0">>, <<"g", "g">>, <<"f", "F">>}

CodecStrings ==
    { lead \o SubSeq(WideDigits(c, low) \o [i \in 1..MaxExtra |-> "0"],
                     1, 12 + d)
        : lead \in CodecLeads,
          c \in CodecBytes \X CodecBytes \X CodecBytes,
          low \in CodecLows,
          d \in (0 - MaxTrunc)..MaxExtra }

InitCodec ==
    /\ thxs \in CodecStrings
    /\ cpc = "decode" /\ rgb1 = <<>> /\ hexs = <<>> /\ rgb2 = <<>>
    /\ IdleMain /\ IdleBrighten /\ IdleClosest

Decode ==
    /\ cpc = "decode"
    /\ rgb1' = tw_to_rgb(thxs)
    /\ cpc' = IF rgb1'.ok THEN "encode" ELSE "raised"
    /\ UNCHANGED <<thxs, hexs, rgb2, mainVars, brightenVars, closestVars>>

Encode ==
    /\ cpc = "encode"
    /\ hexs' = rgb_to_hex(rgb1.rgb)
    /\ cpc' = "redecode"
    /\ UNCHANGED <<thxs, rgb1, rgb2, mainVars, brightenVars, closestVars>>

Redecode ==
    /\ cpc = "redecode"
    /\ rgb2' = tw_to_rgb(hexs)
    /\ cpc' = "done"
    /\ UNCHANGED <<thxs, rgb1, hexs, mainVars, brightenVars, closestVars>>

NextCodec == Decode \/ Encode \/ Redecode
SpecCodec == InitCodec /\ [][NextCodec]_vars

-----------------------------------------------------------------------------
(* brighten applied to one colour and one triple of deltas *)

\* channel values and deltas around the edges 0 and 255 of the two tests
ChannelValues == {0, 1, 19, 20, 21, 128, 234, 235, 236, 254, 255}
DeltaValues == {0, 1, 20, 255}

InitBrighten ==
    /\ b_rgb \in ChannelValues \X ChannelValues \X ChannelValues
    /\ b_values \in DeltaValues \X DeltaValues \X DeltaValues
    /\ bpc = "call" /\ b_out = <<>>
    /\ IdleMain /\ IdleCodec /\ IdleClosest

Brighten ==
    /\ bpc = "call"
    /\ b_out' = brighten(b_rgb, b_values)
    /\ bpc' = "returned"
    /\ UNCHANGED <<b_rgb, b_values, mainVars, codecVars, closestVars>>

NextBrighten == Brighten
SpecBrighten == InitBrighten /\ [][NextBrighten]_vars

-----------------------------------------------------------------------------
(* closest_color applied to one target and one pool *)

MaxPool == 3    \* longest pool

Hues == {BLACK, RED, GREEN, YELLOW, BLUE, MAGENTA, CYAN, WHITE}

\* colours with ties of distance from BLACK, from WHITE and from YELLOW
PoolColors ==
    {<<10, 0, 0>>, <<0, 10, 0>>, <<0, 0, 10>>, <<200, 200, 200>>,
     <<255, 245, 255>>, <<245, 255, 255>>}

Pools == UNION {[1..n -> PoolColors] : n \in 0..MaxPool}

InitClosest ==
    /\ k_rgb \in Hues
    /\ k_colors \in Pools
    /\ kpc = "call" /\ k_result = <<>> /\ k_exc = ""
    /\ IdleMain /\ IdleCodec /\ IdleBrighten

ClosestReturn ==
    /\ kpc = "call"
    /\ closest_color(k_rgb, k_colors).ok
    /\ k_result' = closest_color(k_rgb, k_colors).result
    /\ k_colors' = closest_color(k_rgb, k_colors).pool
    /\ kpc' = "returned"
    /\ UNCHANGED <<k_rgb, k_exc, mainVars, codecVars, brightenVars>>

ClosestRaise ==
    /\ kpc = "call"
    /\ ~closest_color(k_rgb, k_colors).ok
    /\ k_exc' = closest_color(k_rgb, k_colors).err
    /\ kpc' = "raised"
    /\ UNCHANGED <<k_rgb, k_colors, k_result, mainVars, codecVars, brightenVars>>

NextClosest == ClosestReturn \/ ClosestRaise
SpecClosest == InitClosest /\ [][NextClosest]_vars

-----------------------------------------------------------------------------
(* The run of the script, lines 202-346 *)

MaxLines == 9   \* longest palette file, in lines

\* fields, lines 49-71: the slots of conf.entries in their order
fields ==
    <<"foreground", "background", "cursor", "selection_foreground",
      "selection_background", "color0", "color1", "color2", "color3",
      "color4", "color5", "color6", "color7", "color8", "color9", "color10",
      "color11", "color12", "color13", "color14", "color15">>

\* ColorConfModel.__init__, line 72: every slot holds the empty tuple
NewEntries == [f \in Range(fields) |-> <<>>]

\* the command lines of the model
PalettePath == <<"a", ".", "d", "p">>
DeltaArgs ==
    {[brightness |-> 20, r |-> 0, g |-> 0, b |-> 0],
     [brightness |-> 60, r |-> 0, g |-> 100, b |-> 0]}
NColorsArgs == {4, 5, 8}
Args ==
    {[path |-> PalettePath, ncolors |-> n, brightness |-> d.brightness,
      r |-> d.r, g |-> d.g, b |-> d.b, vibrant |-> v, silent |-> q]
        : n \in NColorsArgs, d \in DeltaArgs, v \in BOOLEAN, q \in BOOLEAN}

\* brightness, lines 260-266: a flag above 0 replaces --brightness
Brightness(a) ==
    [i \in 1..3 |-> IF <<a.r, a.g, a.b>>[i] > 0
                    THEN <<a.r, a.g, a.b>>[i]
                    ELSE a.brightness]

\* the palette files of the model: lines of colours taken in turn from
\* PaletteColors; in some, lines are malformed or hold digits that are not
\* hexadecimal where the decoder does not look
PaletteColors ==
    <<<<0, 0, 0>>, <<250, 5, 5>>, <<240, 240, 240>>, <<30, 200, 30>>,
      <<40, 40, 220>>>>
PaletteLine(c) == <<"#">> \o WideDigits(c, <<"0", "0">>) \o <<"\n">>
OddLines ==
    {WideDigits(<<255, 0, 255>>, <<"0", "0">>) \o <<"\n">>,
     <<"\n">>,
     <<"#", "g">> \o Tail(WideDigits(<<255, 0, 255>>, <<"0", "0">>)) \o <<"\n">>,
     <<"#">> \o WideDigits(<<255, 0, 255>>, <<"g", "g">>) \o <<"\n">>}
Strides == {1, 2}
PaletteLines(n, start, stride) ==
    [i \in 1..n |->
        PaletteLine(PaletteColors[((start + stride * i) % Len(PaletteColors)) + 1])]
GoodPalettes ==
    {PaletteLines(n, start, stride) :
        n \in 0..MaxLines, start \in 1..Len(PaletteColors), stride \in Strides}
OddPalettes ==
    UNION {{[PaletteLines(n, 1, 1) EXCEPT ![1] = first, ![n] = last]
                : first \in OddLines \cup {PaletteLines(n, 1, 1)[1]},
                  last \in OddLines \cup {PaletteLines(n, 1, 1)[n]}}
            : n \in 1..MaxLines}
PaletteFiles == GoodPalettes \cup OddPalettes

\* the theme file before the run
OldTheme == <<[key |-> "# an earlier theme", value |-> <<>>]>>

\* the command line is parsed; conf, made at line 289 and read by nothing
\* before, holds its empty slots from the start
Init ==
    /\ pc = "read"
    /\ args \in Args
    /\ theme_file = OldTheme
    /\ colors_12d = <<>>
    /\ colors = <<>>
    /\ bright_colors = <<>>
    /\ entries = NewEntries
    /\ step = 0
    /\ exc = ""
    /\ status = "running"
    /\ IdleCodec /\ IdleBrighten /\ IdleClosest

ErrRead == "OSError: the palette file cannot be read"
ErrWrite == "OSError: the theme file cannot be written"
ErrNColors == "ValueError: ncolors must be either 8 or 4."

\* a plausible slip: the handler re-raises whatever --silent says
HandledAlwaysRaise(silent) == "crash"

\* except Exception as e, lines 272-277 and 341-346
Handled(silent) == IF silent THEN "exit0" ELSE "crash"

others == <<codecVars, brightenVars, closestVars>>

\* lines 269-271: the lines of the file at args.path
ReadPalette ==
    /\ pc = "read"
    /\ \E lines \in PaletteFiles : colors_12d' = lines
    /\ pc' = "decode"
    /\ UNCHANGED <<args, theme_file, colors, bright_colors,
                   entries, step, exc, status, others>>

\* lines 272-277: open() or readlines() raises
ReadFail ==
    /\ pc = "read"
    /\ exc' = ErrRead
    /\ status' = Handled(args.silent)
    /\ pc' = "end"
    /\ UNCHANGED <<args, theme_file, colors_12d, colors,
                   bright_colors, entries, step, others>>

\* line 280: the results of tw_to_rgb(i.strip()) in the order of the lines
Decoded(lines) == [i \in 1..Len(lines) |-> tw_to_rgb(Strip(lines[i]))]
AllDecoded(lines) == \A i \in 1..Len(lines) : Decoded(lines)[i].ok
FirstFailure(lines) ==
    Decoded(lines)[CHOOSE i \in 1..Len(lines) :
        /\ ~Decoded(lines)[i].ok
        /\ \A j \in 1..(i - 1) : Decoded(lines)[j].ok]

DecodePalette ==
    /\ pc = "decode"
    /\ AllDecoded(colors_12d)
    /\ colors' = [i \in 1..Len(colors_12d) |-> Decoded(colors_12d)[i].rgb]
    /\ pc' = "pools"
    /\ UNCHANGED <<args, theme_file, colors_12d, bright_colors,
                   entries, step, exc, status, others>>

DecodeRaise ==
    /\ pc = "decode"
    /\ ~AllDecoded(colors_12d)
    /\ exc' = FirstFailure(colors_12d).err
    /\ status' = "crash"
    /\ pc' = "end"
    /\ UNCHANGED <<args, theme_file, colors_12d, colors,
                   bright_colors, entries, step, others>>

\* line 284: brightness * 2 is the tuple brightness twice over
VibrantValues(a) == TupleRepeat(Brightness(a), 2)

\* lines 282-284
PoolsVibrant ==
    /\ pc = "pools"
    /\ args.vibrant
    /\ colors' = [i \in 1..Len(colors) |-> brighten(colors[i], Brightness(args))]
    /\ bright_colors' =
         [i \in 1..Len(colors) |-> brighten(colors'[i], VibrantValues(args))]
    /\ pc' = "assign"
    /\ UNCHANGED <<args, theme_file, colors_12d, entries, step,
                   exc, status, others>>

\* lines 285-286
PoolsPlain ==
    /\ pc = "pools"
    /\ ~args.vibrant
    /\ bright_colors' =
         [i \in 1..Len(colors) |-> brighten(colors[i], Brightness(args))]
    /\ pc' = "assign"
    /\ UNCHANGED <<args, theme_file, colors_12d, colors, entries,
                   step, exc, status, others>>

\* the statements of lines 292-329 that assign a slot, in their order
Closest(slot, hue, pool) ==
    [slot |-> slot, op |-> "closest_color", hue |-> hue, pool |-> pool, src |-> ""]
TextColor(slot, src) ==
    [slot |-> slot, op |-> "text_color", hue |-> <<>>, pool |-> "", src |-> src]
Copy(slot, src) ==
    [slot |-> slot, op |-> "copy", hue |-> <<>>, pool |-> "", src |-> src]

Assignments ==
    <<Closest("background", BLACK, "colors"),
      TextColor("foreground", "background"),
      Closest("cursor", YELLOW, "colors"),
      Copy("selection_foreground", "background"),
      Copy("selection_background", "foreground"),
      Copy("color0", "background"),
      Closest("color8", BLACK, "bright_colors"),
      Closest("color1", RED, "colors"),
      Closest("color9", RED, "bright_colors"),
      Closest("color2", GREEN, "colors"),
      Closest("color10", GREEN, "bright_colors"),
      Copy("color3", "cursor"),
      Closest("color11", YELLOW, "bright_colors"),
      Closest("color4", BLUE, "colors"),
      Closest("color12", BLUE, "bright_colors"),
      Closest("color5", MAGENTA, "colors"),
      Closest("color13", MAGENTA, "bright_colors"),
      Closest("color6", CYAN, "colors"),
      Closest("color14", CYAN, "bright_colors"),
      Closest("color7", WHITE, "colors"),
      Closest("color15", WHITE, "bright_colors")>>

\* a plausible slip: every palette size let through
NColorsAny(n) == TRUE

\* line 291: args.ncolors in [8, 4]
NColorsSupported(n) == n \in {8, 4}

\* the statement the run is about to execute
AtStatement(op) ==
    /\ pc = "assign"
    /\ NColorsSupported(args.ncolors)
    /\ step < Len(Assignments)
    /\ Assignments[step + 1].op = op
Stmt == Assignments[step + 1]
AfterStatement ==
    /\ step' = step + 1
    /\ pc' = IF step + 1 = Len(Assignments) THEN "write" ELSE "assign"

\* lines 331-332
RaiseNColors ==
    /\ pc = "assign"
    /\ ~NColorsSupported(args.ncolors)
    /\ exc' = ErrNColors
    /\ status' = "crash"
    /\ pc' = "end"
    /\ UNCHANGED <<args, theme_file, colors_12d, colors,
                   bright_colors, entries, step, others>>

\* conf.entries[slot] = closest_color(hue, colors)
AssignClosestNormal ==
    /\ AtStatement("closest_color")
    /\ Stmt.pool = "colors"
    /\ LET call == closest_color(Stmt.hue, colors)
       IN  /\ call.ok
           /\ entries' = [entries EXCEPT ![Stmt.slot] = call.result]
           /\ colors' = call.pool
    /\ AfterStatement
    /\ UNCHANGED <<args, theme_file, colors_12d, bright_colors,
                   exc, status, others>>

\* conf.entries[slot] = closest_color(hue, bright_colors)
AssignClosestBright ==
    /\ AtStatement("closest_color")
    /\ Stmt.pool = "bright_colors"
    /\ LET call == closest_color(Stmt.hue, bright_colors)
       IN  /\ call.ok
           /\ entries' = [entries EXCEPT ![Stmt.slot] = call.result]
           /\ bright_colors' = call.pool
    /\ AfterStatement
    /\ UNCHANGED <<args, theme_file, colors_12d, colors,
                   exc, status, others>>

\* min() raises on the empty pool, line 197; nothing catches it
AssignRaise ==
    /\ AtStatement("closest_color")
    /\ LET pool == IF Stmt.pool = "colors" THEN colors ELSE bright_colors
       IN  /\ ~closest_color(Stmt.hue, pool).ok
           /\ exc' = closest_color(Stmt.hue, pool).err
    /\ status' = "crash"
    /\ pc' = "end"
    /\ UNCHANGED <<args, theme_file, colors_12d, colors,
                   bright_colors, entries, step, others>>

\* lines 293-294
AssignTextColor ==
    /\ AtStatement("text_color")
    /\ entries' = [entries EXCEPT ![Stmt.slot] = text_color(entries[Stmt.src])]
    /\ AfterStatement
    /\ UNCHANGED <<args, theme_file, colors_12d, colors,
                   bright_colors, exc, status, others>>

\* lines 296, 297, 300, 312
AssignCopy ==
    /\ AtStatement("copy")
    /\ entries' = [entries EXCEPT ![Stmt.slot] = entries[Stmt.src]]
    /\ AfterStatement
    /\ UNCHANGED <<args, theme_file, colors_12d, colors,
                   bright_colors, exc, status, others>>

\* a plausible slip: the slots written without the two comment lines
ThemeLinesBare(path, e) ==
    [i \in 1..Len(fields) |-> [key |-> fields[i], value |-> rgb_to_hex(e[fields[i]])]]

\* lines 337-340: what a complete write leaves in the theme file
ThemeLines(path, e) ==
    <<[key |-> "### Color theme generated by nscde-kitty-integ.py.", value |-> <<>>],
      [key |-> "### NsCDE theme:", value |-> path]>>
    \o [i \in 1..Len(fields) |-> [key |-> fields[i], value |-> rgb_to_hex(e[fields[i]])]]

\* lines 336-340
WriteTheme ==
    /\ pc = "write"
    /\ theme_file' = ThemeLines(args.path, entries)
    /\ status' = "exit0"
    /\ pc' = "end"
    /\ UNCHANGED <<args, colors_12d, colors, bright_colors,
                   entries, step, exc, others>>

\* open() fails, line 336: the file is as it was
OpenFail ==
    /\ pc = "write"
    /\ exc' = ErrWrite
    /\ status' = Handled(args.silent)
    /\ pc' = "end"
    /\ UNCHANGED <<args, theme_file, colors_12d, colors,
                   bright_colors, entries, step, others>>

\* a write fails, lines 337-340: open() has emptied the file and the lines
\* before the failing one are in it
WriteFail ==
    /\ pc = "write"
    /\ \E k \in 0..(Len(ThemeLines(args.path, entries)) - 1) :
          theme_file' = SubSeq(ThemeLines(args.path, entries), 1, k)
    /\ exc' = ErrWrite
    /\ status' = Handled(args.silent)
    /\ pc' = "end"
    /\ UNCHANGED <<args, colors_12d, colors, bright_colors,
                   entries, step, others>>

Next ==
    \/ ReadPalette \/ ReadFail
    \/ DecodePalette \/ DecodeRaise
    \/ PoolsVibrant \/ PoolsPlain
    \/ RaiseNColors
    \/ AssignClosestNormal \/ AssignClosestBright \/ AssignRaise
    \/ AssignTextColor \/ AssignCopy
    \/ WriteTheme \/ OpenFail \/ WriteFail

Spec == Init /\ [][Next]_vars

-----------------------------------------------------------------------------
(* Properties *)

FormatErrors == {ErrFormat12, ErrFormatLen, ErrInt}

\* the colours the decoder made of the lines read
RawColors == [i \in 1..Len(colors_12d) |-> Decoded(colors_12d)[i].rgb]

\* the run read its palette and decoded every line of it
PaletteDecoded == pc # "read" /\ exc # ErrRead /\ AllDecoded(colors_12d)

\* C1: with --vibrant, the normal pool is brighten(raw, d) and the bright
\* pool is brighten(normal, 2 * d), the deltas doubled channel by channel.
C1_VibrantBrightPoolDoubled ==
    (pc = "assign" /\ step = 0 /\ args.vibrant) =>
        LET d == Brightness(args)
            twice == [i \in 1..3 |-> 2 * d[i]]
        IN  /\ colors = [i \in 1..Len(RawColors) |-> brighten(RawColors[i], d)]
            /\ bright_colors =
                 [i \in 1..Len(colors) |-> brighten(colors[i], twice)]

\* the result of a call that returned is an entry of the pool as it was,
\* none of whose entries is closer to the target
IsClosest(rgb, pool, result) ==
    /\ \E i \in 1..Len(pool) : pool[i] = result
    /\ \A j \in 1..Len(pool) : ColorDiff(rgb, pool[j]) >= ColorDiff(rgb, result)

\* a <= b, red first, then green, then blue
RgbLeq(a, b) ==
    \/ a[1] < b[1]
    \/ a[1] = b[1] /\ a[2] < b[2]
    \/ a[1] = b[1] /\ a[2] = b[2] /\ a[3] <= b[3]

\* C2 as claimed: closest_color returns an entry at the least distance, and
\* of several such entries the one that comes first in the pool.
C2_TieFirstInPoolOrder ==
    [][(kpc = "call" /\ kpc' = "returned") =>
          /\ IsClosest(k_rgb, k_colors, k_result')
          /\ \E i \in 1..Len(k_colors) :
                /\ k_colors[i] = k_result'
                /\ \A j \in 1..(i - 1) :
                      ColorDiff(k_rgb, k_colors[j]) > ColorDiff(k_rgb, k_result')]_vars

\* C2 as amended: closest_color returns an entry at the least distance, and
\* of several such entries the one whose (R, G, B) is least in tuple order.
C2_TieLeastTuple ==
    [][(kpc = "call" /\ kpc' = "returned") =>
          /\ IsClosest(k_rgb, k_colors, k_result')
          /\ \A j \in 1..Len(k_colors) :
                ColorDiff(k_rgb, k_colors[j]) = ColorDiff(k_rgb, k_result')
                    => RgbLeq(k_result', k_colors[j])]_vars

\* a call returned one of two different colours at the same least distance
C2_Witness ==
    /\ kpc = "returned"
    /\ \E i \in 1..Len(k_colors) :
          /\ k_colors[i] # k_result
          /\ ColorDiff(k_rgb, k_colors[i]) = ColorDiff(k_rgb, k_result)

\* C3 as claimed: every run with ncolors outside {4, 8} ends by raising the
\* invalid-palette-size error, with and without --silent.
C3_AlwaysSizeError ==
    (pc = "end" /\ args.ncolors \notin {4, 8}) =>
        exc = ErrNColors /\ status = "crash"

\* C3 as amended: a run with ncolors outside {4, 8} that read its palette and
\* decoded every line ends by raising the invalid-palette-size error, with
\* and without --silent; any other such run ended earlier, with the read
\* failure or the format error.
C3_SizeErrorOncePaletteDecoded ==
    (pc = "end" /\ args.ncolors \notin {4, 8}) =>
        /\ PaletteDecoded => exc = ErrNColors /\ status = "crash"
        /\ ~PaletteDecoded => exc \in {ErrRead} \cup FormatErrors
        /\ step = 0

\* a silent run on 8 good lines ended with the size error
C3_Witness ==
    /\ pc = "end" /\ args.ncolors = 5 /\ args.silent
    /\ Len(colors_12d) = 8 /\ exc = ErrNColors

\* C4: a failure to read the palette or to write the theme ends the run with
\* exit status 0 under --silent and abnormally without it; format errors,
\* the size error and the exhausted-palette error end it abnormally either way.
C4_SilentCoversOnlyIO ==
    pc = "end" =>
        /\ exc \in {ErrRead, ErrWrite} =>
              status = (IF args.silent THEN "exit0" ELSE "crash")
        /\ exc \in FormatErrors \cup {ErrNColors, ErrMinEmpty} => status = "crash"
        /\ exc = "" => status = "exit0"
        /\ exc \in {ErrRead, ErrWrite, ErrNColors, ErrMinEmpty, ""} \cup FormatErrors

\* a silent run whose write failed ended with exit status 0
C4_Witness ==
    pc = "end" /\ args.silent /\ exc = ErrWrite /\ status = "exit0"

\* a valid wide-hex string: "#" and 12 hex digits
ValidWide(s) ==
    Len(s) = 13 /\ s[1] = "#" /\ \A i \in 2..13 : IsHexChar(s[i])

\* C5 as claimed: decoding a valid wide-hex string, encoding the triple and
\* decoding the encoded string yields the triple of the first decoding.
C5_RoundTrip ==
    (cpc = "done" /\ ValidWide(thxs)) => rgb2.ok /\ rgb2.rgb = rgb1.rgb

\* C5 as amended: decoding a valid wide-hex string yields a triple, the
\* encoder writes it as "#" and 3 to 6 hex digits, and decoding that string
\* raises the format error for a wrong length; it yields no triple.
C5_EncodedIsNotWide ==
    ValidWide(thxs) =>
        /\ cpc # "raised"
        /\ cpc \in {"encode", "redecode", "done"} =>
              rgb1.ok /\ \A i \in 1..3 : rgb1.rgb[i] \in 0..255
        /\ cpc \in {"redecode", "done"} =>
              /\ Len(hexs) \in 4..7
              /\ hexs[1] = "#"
              /\ \A i \in 2..Len(hexs) : hexs[i] \in Range(UpperHex)
        /\ cpc = "done" => ~rgb2.ok /\ rgb2.err = ErrFormatLen

\* a valid string with channels below 16 went round: "#" and one digit each
C5_Witness ==
    cpc = "done" /\ ValidWide(thxs) /\ Len(hexs) = 4 /\ rgb1.rgb = <<0, 5, 5>>

\* C6: brighten returns c + d when no channel of it is above 255, else c - d
\* when no channel of it is below 0, else c; so every channel is in 0..255.
C6_BrightenPicksOneCandidate ==
    bpc = "returned" =>
        LET sum == [i \in 1..3 |-> b_rgb[i] + b_values[i]]
            dif == [i \in 1..3 |-> b_rgb[i] - b_values[i]]
            over == \E i \in 1..3 : sum[i] > 255
            under == \E i \in 1..3 : dif[i] < 0
        IN  /\ ~over => b_out = sum
            /\ over /\ ~under => b_out = dif
            /\ over /\ under => b_out = b_rgb
            /\ Len(b_out) = 3
            /\ \A i \in 1..3 : b_out[i] \in 0..255

\* the sum overflowed in one channel only and brighten dimmed all three
C6_Witness ==
    /\ bpc = "returned"
    /\ b_rgb = <<255, 20, 128>> /\ b_values = <<1, 20, 20>>
    /\ b_out = <<254, 0, 108>>

\* the closest_color statements among the first j, on one pool
CallsOn(pool, j) ==
    Cardinality({k \in 1..j : Assignments[k].op = "closest_color"
                              /\ Assignments[k].pool = pool})

\* the first statement that calls closest_color on a pool of n colours
\* for the (n + 1)st time, the pool then being empty
FirstCallOnEmpty(n) ==
    CHOOSE j \in 1..Len(Assignments) :
        /\ Assignments[j].op = "closest_color"
        /\ CallsOn(Assignments[j].pool, j) = n + 1
        /\ \A k \in 1..(j - 1) :
              Assignments[k].op = "closest_color"
                  => CallsOn(Assignments[k].pool, k) <= n

\* C7: with ncolors in {4, 8}, a palette of fewer than 8 colours fails with
\* the exhausted-palette error at the first closest_color call on an empty
\* pool and no later slot is assigned; with 8 colours or more all 16 calls
\* succeed.
C7_ExhaustedBelowEight ==
    (pc = "end" /\ args.ncolors \in {4, 8} /\ PaletteDecoded) =>
        LET n == Len(colors_12d)
        IN  IF n < 8
            THEN /\ exc = ErrMinEmpty /\ status = "crash"
                 /\ step + 1 = FirstCallOnEmpty(n)
                 /\ (IF Stmt.pool = "colors" THEN colors ELSE bright_colors) = <<>>
                 /\ \A j \in 1..Len(Assignments) :
                       (entries[Assignments[j].slot] = <<>>) <=> (j > step)
                 /\ theme_file = OldTheme
            ELSE /\ exc # ErrMinEmpty
                 /\ step = Len(Assignments)
                 /\ CallsOn("colors", step) = 8
                 /\ CallsOn("bright_colors", step) = 8
                 /\ Len(colors) = n - 8 /\ Len(bright_colors) = n - 8
                 /\ \A f \in Range(fields) : entries[f] # <<>>

\* a palette of 7 colours failed at the eighth call on the normal pool
C7_Witness ==
    /\ pc = "end" /\ exc = ErrMinEmpty /\ Len(colors_12d) = 7
    /\ Stmt.slot = "color7" /\ colors = <<>>
    /\ entries["color14"] # <<>> /\ entries["color7"] = <<>>

\* C8: tw_to_rgb returns a triple only for a string of 13 characters that
\* starts with "#"; any other string raises a format error, one of 12
\* characters with a message of its own.
C8_DecodeRequiresLeadingHash ==
    cpc # "decode" =>
        /\ rgb1.ok => Len(thxs) = 13 /\ thxs[1] = "#"
        /\ Len(thxs) = 12 => ~rgb1.ok /\ rgb1.err = ErrFormat12
        /\ Len(thxs) \notin {12, 13} => ~rgb1.ok /\ rgb1.err = ErrFormatLen
        /\ (Len(thxs) = 13 /\ thxs[1] # "#") => ~rgb1.ok /\ rgb1.err \in FormatErrors

\* s with its i-th entry taken out
Without(s, i) == SubSeq(s, 1, i - 1) \o SubSeq(s, i + 1, Len(s))

\* the same colours the same number of times
SameMultiset(s, t) ==
    /\ Len(s) = Len(t)
    /\ \A c \in Range(s) \cup Range(t) :
          Cardinality({i \in 1..Len(s) : s[i] = c})
              = Cardinality({i \in 1..Len(t) : t[i] = c})

\* the pools as lines 282-286 leave them
NormalPool ==
    IF args.vibrant
    THEN [i \in 1..Len(RawColors) |-> brighten(RawColors[i], Brightness(args))]
    ELSE RawColors
BrightPool ==
    [i \in 1..Len(NormalPool) |->
        brighten(NormalPool[i],
                 IF args.vibrant THEN VibrantValues(args) ELSE Brightness(args))]

NormalSlots ==
    <<"background", "cursor", "color1", "color2", "color4", "color5",
      "color6", "color7">>
BrightSlots ==
    <<"color8", "color9", "color10", "color11", "color12", "color13",
      "color14", "color15">>

\* C9: a closest_color call takes one occurrence of the colour it returns
\* out of the pool and leaves the other entries in their order; after a
\* complete run on 8 colours the slots matched on the normal pool hold the
\* multiset of its 8 entries, color8..color15 that of the bright pool, and
\* both pools are empty.
C9_EachEntryConsumedOnce ==
    /\ [][(AtStatement("closest_color") /\ step' = step + 1) =>
            LET slot == Stmt.slot
            IN  IF Stmt.pool = "colors"
                THEN /\ bright_colors' = bright_colors
                     /\ \E i \in 1..Len(colors) :
                           /\ colors[i] = entries'[slot]
                           /\ colors' = Without(colors, i)
                ELSE /\ colors' = colors
                     /\ \E i \in 1..Len(bright_colors) :
                           /\ bright_colors[i] = entries'[slot]
                           /\ bright_colors' = Without(bright_colors, i)]_vars
    /\ [](  (pc = "end" /\ exc = "" /\ Len(colors_12d) = 8) =>
              /\ colors = <<>> /\ bright_colors = <<>>
              /\ SameMultiset([i \in 1..8 |-> entries[NormalSlots[i]]], NormalPool)
              /\ SameMultiset([i \in 1..8 |-> entries[BrightSlots[i]]], BrightPool))

\* a complete run on 8 colours, one of them on two lines
C9_Witness ==
    /\ pc = "end" /\ exc = "" /\ Len(colors_12d) = 8
    /\ entries["color1"] = entries["color7"]
    /\ entries["color9"] = entries["color15"]

\* the slots in the order of the theme file
SlotOrder ==
    <<"foreground", "background", "cursor", "selection_foreground",
      "selection_background", "color0", "color1", "color2", "color3",
      "color4", "color5", "color6", "color7", "color8", "color9", "color10",
      "color11", "color12", "color13", "color14", "color15">>

\* C10: the theme file is opened only once all 21 slots are assigned; a run
\* ended by a read failure, a format error, the size error or the
\* exhausted-palette error leaves it as it was; a complete run leaves in it
\* 2 comment lines and then the 21 slots in their order, none without value.
C10_ThemeWrittenAfterAssignment ==
    /\ theme_file # OldTheme =>
          /\ step = 21
          /\ \A i \in 1..21 : Len(entries[SlotOrder[i]]) = 3
    /\ (pc = "end" /\ exc \in {ErrRead, ErrNColors, ErrMinEmpty} \cup FormatErrors)
          => theme_file = OldTheme
    /\ (pc = "end" /\ exc = "") =>
          /\ Len(theme_file) = 23
          /\ theme_file[1] =
               [key |-> "### Color theme generated by nscde-kitty-integ.py.",
                value |-> <<>>]
          /\ theme_file[2] = [key |-> "### NsCDE theme:", value |-> args.path]
          /\ \A i \in 1..21 :
                /\ theme_file[i + 2].key = SlotOrder[i]
                /\ theme_file[i + 2].value = rgb_to_hex(entries[SlotOrder[i]])
                /\ Len(theme_file[i + 2].value) >= 4

\* a complete run wrote the theme
C10_Witness ==
    /\ pc = "end" /\ exc = "" /\ status = "exit0"
    /\ Len(theme_file) = 23 /\ theme_file[23].key = "color15"

=============================================================================
